---- MODULE Spec2Model ----
(***************************************************************************)
(* Model of streamlit_app.py: one user action of the earthquake dashboard  *)
(* (fetch -> normalize -> preview -> create map -> overlay raster ->       *)
(* display -> save), the joblib memoization cache of the raster loader and *)
(* the raster files on disk, which the environment may change at any time. *)
(*                                                                         *)
(* Numbers of the feed (magnitude, longitude, latitude, depth) are floats  *)
(* in the program; here a value is an integer counting tenths, so 1512     *)
(* stands for 151.2 and -338 for -33.8.                                    *)
(***************************************************************************)
EXTENDS Integers, Sequences, FiniteSets, TLC

VARIABLES
    pc,        \* position of main() inside the button branch
    path,      \* satellite_image_path read from the sidebar for this action
    response,  \* <<>> or <<r>>: what requests.get met in this action
    requests,  \* number of requests.get calls issued by this action
    table,     \* <<>> or <<df>>: earthquake_data of this action
    map,       \* <<>> or <<m>>: the folium map of this action
    out,       \* what this action has shown on the page so far, in order
    written,   \* <<>> or <<m>>: what this action wrote to the export file
    fault,     \* the exception that ended this action, "none" if none
    loaded,    \* <<>> or <<l>>: the image the loader returned to add_satellite_imagery
               \* in this action, and whether the store served it (hit)
    files,     \* raster files on disk: path -> version, 0 = missing/unreadable
    cache,     \* joblib store of load_satellite_imagery: path -> image, 0 = no entry
    reads      \* path -> number of times src.read(1) ran on that path

vars == <<pc, path, response, requests, table, map, out, written, fault,
          loaded, files, cache, reads>>

----------------------------------------------------------------------------
(* Bounds of the model *)

\* longest features array a response carries
MaxFeatures == 2

\* number of distinct versions a raster file goes through
MaxVersion == 2

----------------------------------------------------------------------------
(* Inputs *)

\* raster paths the user may type; "" is the empty text box
Paths == {"NE1_LR_LC_SR.tif", "other.tif"}

PathInputs == {""} \cup Paths

\* GeoJSON features of the feed; the last one has a malformed position
GoodFeatures ==
    { [properties |-> [mag |-> 60], geometry |-> [coordinates |-> <<1512, -338, 100>>]],
      [properties |-> [mag |-> 75], geometry |-> [coordinates |-> <<-705, -201, 355>>]] }

BadFeatures ==
    { [properties |-> [mag |-> 62], geometry |-> [coordinates |-> <<1512, -338>>]] }

Features == GoodFeatures \cup BadFeatures

RECURSIVE SeqsUpTo(_, _)
SeqsUpTo(S, n) ==
    IF n = 0 THEN {<<>>}
    ELSE LET shorter == SeqsUpTo(S, n - 1)
         IN  shorter \cup { Append(s, x) : s \in { t \in shorter : Len(t) = n - 1 }, x \in S }

FeatureLists == SeqsUpTo(Features, MaxFeatures)

\* bodies of an HTTP response: not JSON, JSON without "features", a feature collection
Bodies ==
    { [kind |-> "text", data |-> [error |-> "x"]],
      [kind |-> "json", data |-> [error |-> "x"]] }
    \cup { [kind |-> "json", data |-> [features |-> fs]] : fs \in FeatureLists }

StatusCodes == {200, 503}

Responses ==
    { [kind |-> "neterr", status |-> 0, body |-> [kind |-> "text", data |-> [error |-> "x"]]] }
    \cup { [kind |-> "http", status |-> s, body |-> b] : s \in StatusCodes, b \in Bodies }

Is2xx(r) == r.kind = "http" /\ r.status \div 100 = 2

----------------------------------------------------------------------------
(* Raster files *)

\* the georeferenced extent that version v of a raster file declares
\* (rasterio BoundingBox: left, bottom, right, top)
FileBounds(v) == [left |-> 10 * v + 1, bottom |-> 10 * v + 2,
                  right |-> 10 * v + 5, top |-> 10 * v + 7]

\* band 1 of version v of a raster file (the version stands for its pixel grid)
FileBand1(v) == v

----------------------------------------------------------------------------
(* Pure functions of the pipeline *)

\* Python's 0-based x[i] on a sequence
PyIndex(x, i) == x[i + 1]

\* one feature flattened into dotted-path columns, as pd.json_normalize does
FlattenFeature(f) ==
    LET keys == { kj \in (DOMAIN f) \X {"mag", "coordinates"} : kj[2] \in DOMAIN f[kj[1]] }
        name(kj) == kj[1] \o "." \o kj[2]
    IN  [ c \in { name(kj) : kj \in keys } |->
            LET kj == CHOOSE q \in keys : name(q) = c IN f[kj[1]][kj[2]] ]

json_normalize_dropping_last(features) ==
    LET kept == SubSeq(features, 1, Len(features) - 1)
    IN  [ columns |-> UNION { DOMAIN FlattenFeature(kept[i]) : i \in 1..Len(kept) },
          rows    |-> [ i \in 1..Len(kept) |-> FlattenFeature(kept[i]) ] ]

json_normalize_fixed_columns(features) ==
    [ columns |-> {"properties.mag", "geometry.coordinates"},
      rows    |-> [ i \in 1..Len(features) |-> FlattenFeature(features[i]) ] ]

\* pd.json_normalize(data['features']): one row per feature; the columns are
\* those the features bring, so an empty list gives a table with no columns
json_normalize(features) ==
    [ columns |-> UNION { DOMAIN FlattenFeature(features[i]) : i \in 1..Len(features) },
      rows    |-> [ i \in 1..Len(features) |-> FlattenFeature(features[i]) ] ]

\* fetch_earthquake_data on response r: the exception raised ("none" if it
\* returns) and the table returned.  The status code is not looked at.
fetch_earthquake_data(r) ==
    IF r.kind = "neterr"
      THEN [raised |-> "ConnectionError", df |-> <<>>]
    ELSE IF r.body.kind # "json"
      THEN [raised |-> "JSONDecodeError", df |-> <<>>]
    ELSE IF "features" \notin DOMAIN r.body.data
      THEN [raised |-> "KeyError", df |-> <<>>]
    ELSE [raised |-> "none", df |-> <<json_normalize(r.body.data.features)>>]

\* does reading index i of every position entry of df succeed
CanIndex(df, i) ==
    \A n \in 1..Len(df.rows) : Len(df.rows[n]["geometry.coordinates"]) > i

AddColumn(df, col, i) ==
    [ columns |-> df.columns \cup {col},
      rows    |-> [ n \in 1..Len(df.rows) |->
                      df.rows[n] @@ (col :> PyIndex(df.rows[n]["geometry.coordinates"], i)) ] ]

normalize_swapped(df) ==
    IF "geometry.coordinates" \notin df.columns
      THEN [raised |-> "KeyError", df |-> df]
    ELSE IF ~CanIndex(df, 1)
      THEN [raised |-> "IndexError", df |-> df]
    ELSE LET d1 == AddColumn(df, "latitude", 0)
         IN  IF ~CanIndex(df, 0)
               THEN [raised |-> "IndexError", df |-> d1]
             ELSE LET d2 == AddColumn(d1, "longitude", 1)
                  IN  IF ~CanIndex(df, 2)
                        THEN [raised |-> "IndexError", df |-> d2]
                      ELSE [raised |-> "none", df |-> AddColumn(d2, "depth", 2)]

\* the three column assignments of main(), one after the other: latitude =
\* x[1], longitude = x[0], depth = x[2]; the exception raised and the table as
\* it is then (an assignment that raises leaves the columns added before it)
normalize(df) ==
    IF "geometry.coordinates" \notin df.columns
      THEN [raised |-> "KeyError", df |-> df]
    ELSE IF ~CanIndex(df, 1)
      THEN [raised |-> "IndexError", df |-> df]
    ELSE LET d1 == AddColumn(df, "latitude", 1)
         IN  IF ~CanIndex(df, 0)
               THEN [raised |-> "IndexError", df |-> d1]
             ELSE LET d2 == AddColumn(d1, "longitude", 0)
                  IN  IF ~CanIndex(df, 2)
                        THEN [raised |-> "IndexError", df |-> d2]
                      ELSE [raised |-> "none", df |-> AddColumn(d2, "depth", 2)]

\* str() of a float given in tenths: 1512 -> "151.2", -338 -> "-33.8", 60 -> "6.0"
FormatFloat(t) ==
    LET a == IF t < 0 THEN 0 - t ELSE t
    IN  (IF t < 0 THEN "-" ELSE "") \o ToString(a \div 10) \o "." \o ToString(a % 10)

Popup(mag, depth) ==
    "Magnitude: " \o FormatFloat(mag) \o ", Depth: " \o FormatFloat(depth) \o " km"

Marker(row) ==
    [ location |-> <<row["latitude"], row["longitude"]>>,
      popup    |-> Popup(row["properties.mag"], row["depth"]),
      color    |-> "red" ]

\* create_interactive_map: a map with one MarkerCluster layer, one marker per row
create_interactive_map(df) ==
    [ location |-> <<-25, 135>>, zoom_start |-> 4,
      layers   |-> << [ kind    |-> "MarkerCluster",
                        markers |-> [ n \in 1..Len(df.rows) |-> Marker(df.rows[n]) ] ] >> ]

load_satellite_imagery_uncached(p, c, rd, f) ==
    IF f[p] = 0
      THEN [raised |-> "RasterioIOError", image |-> 0, cache |-> c, reads |-> rd]
    ELSE [raised |-> "none", image |-> FileBand1(f[p]),
          cache |-> [c EXCEPT ![p] = FileBand1(f[p])],
          reads |-> [rd EXCEPT ![p] = @ + 1]]

\* load_satellite_imagery under @memory.cache, given store c, read counts rd
\* and disk f: a stored entry is returned without opening the file
load_satellite_imagery(p, c, rd, f) ==
    IF c[p] # 0
      THEN [raised |-> "none", image |-> c[p], cache |-> c, reads |-> rd]
    ELSE IF f[p] = 0
      THEN [raised |-> "RasterioIOError", image |-> 0, cache |-> c, reads |-> rd]
    ELSE [raised |-> "none", image |-> FileBand1(f[p]),
          cache |-> [c EXCEPT ![p] = FileBand1(f[p])],
          reads |-> [rd EXCEPT ![p] = @ + 1]]

OverlayBounds_swapped(b) == << <<b.left, b.bottom>>, <<b.right, b.top>> >>

\* bounds=[[bounds.bottom, bounds.left], [bounds.top, bounds.right]]
OverlayBounds(b) == << <<b.bottom, b.left>>, <<b.top, b.right>> >>

ImageOverlay(image, b) ==
    [ kind |-> "ImageOverlay", image |-> image, bounds |-> OverlayBounds(b), opacity |-> 6 ]

add_satellite_imagery_load_no_skip(p, c, rd, f) ==
    IF p = ""
      THEN [skip |-> FALSE, raised |-> "RasterioIOError", loaded |-> <<>>, cache |-> c, reads |-> rd]
    ELSE LET ld == load_satellite_imagery(p, c, rd, f)
         IN  [skip |-> FALSE, raised |-> ld.raised,
              loaded |-> IF ld.raised = "none"
                           THEN <<[image |-> ld.image, hit |-> c[p] # 0]>> ELSE <<>>,
              cache |-> ld.cache, reads |-> ld.reads]

\* add_satellite_imagery, lines 88-89: without a path nothing is done (skip);
\* with one, the image comes from the memoized loader
add_satellite_imagery_load(p, c, rd, f) ==
    IF p # ""
      THEN LET ld == load_satellite_imagery(p, c, rd, f)
           IN  [skip |-> FALSE, raised |-> ld.raised,
                loaded |-> IF ld.raised = "none"
                             THEN <<[image |-> ld.image, hit |-> c[p] # 0]>> ELSE <<>>,
                cache |-> ld.cache, reads |-> ld.reads]
    ELSE [skip |-> TRUE, raised |-> "none", loaded |-> <<>>, cache |-> c, reads |-> rd]

add_satellite_imagery_place_degrading(m, p, image, f) ==
    IF f[p] = 0
      THEN [raised |-> "none", map |-> m]
    ELSE [raised |-> "none",
          map |-> [m EXCEPT !.layers = Append(@, ImageOverlay(image, FileBounds(f[p])))]]

\* add_satellite_imagery, lines 90-99: the file is opened again for its
\* bounds, as it is on disk now, and the overlay is added to the map
add_satellite_imagery_place(m, p, image, f) ==
    IF f[p] = 0
      THEN [raised |-> "RasterioIOError", map |-> m]
    ELSE [raised |-> "none",
          map |-> [m EXCEPT !.layers = Append(@, ImageOverlay(image, FileBounds(f[p])))]]

----------------------------------------------------------------------------
(* The program *)

Init ==
    /\ pc = "idle"
    /\ path = ""
    /\ response = <<>>
    /\ requests = 0
    /\ table = <<>>
    /\ map = <<>>
    /\ out = <<>>
    /\ written = <<>>
    /\ fault = "none"
    /\ loaded = <<>>
    /\ files \in [Paths -> 0..MaxVersion]
    /\ cache = [p \in Paths |-> 0]
    /\ reads = [p \in Paths |-> 0]

\* an uncaught exception e ends the action
Abort(e) == pc' = "failed" /\ fault' = e

\* the button is pressed: a fresh run of the branch, which first writes
\* "Fetching earthquake data..."
Click ==
    /\ pc \in {"idle", "done", "failed"}
    /\ \E p \in PathInputs : path' = p
    /\ pc' = "fetch"
    /\ response' = <<>>
    /\ requests' = 0
    /\ table' = <<>>
    /\ map' = <<>>
    /\ written' = <<>>
    /\ fault' = "none"
    /\ loaded' = <<>>
    /\ out' = <<"Fetching earthquake data...">>
    /\ UNCHANGED <<files, cache, reads>>

\* earthquake_data = fetch_earthquake_data(...)
Fetch ==
    /\ pc = "fetch"
    /\ \E r \in Responses :
         LET res == fetch_earthquake_data(r)
         IN  /\ response' = <<r>>
             /\ requests' = requests + 1
             /\ table' = res.df
             /\ IF res.raised # "none"
                  THEN Abort(res.raised)
                  ELSE pc' = "normalize" /\ fault' = fault
    /\ UNCHANGED <<path, map, out, written, loaded, files, cache, reads>>

\* the latitude / longitude / depth columns
Normalize ==
    /\ pc = "normalize"
    /\ LET res == normalize(table[1])
       IN  IF res.raised # "none"
             THEN Abort(res.raised) /\ table' = <<res.df>>
             ELSE pc' = "preview" /\ fault' = fault /\ table' = <<res.df>>
    /\ UNCHANGED <<path, response, requests, map, out, written, loaded, files, cache, reads>>

\* st.write("Earthquake Data Preview:"); st.dataframe(earthquake_data.head())
Preview ==
    /\ pc = "preview"
    /\ out' = out \o <<"Earthquake Data Preview:", "dataframe">>
    /\ pc' = "create"
    /\ UNCHANGED <<path, response, requests, table, map, written, fault, loaded, files, cache, reads>>

CreateMap_showing ==
    /\ pc = "create"
    /\ out' = out \o <<"Creating interactive map...", "Interactive Map:", "map">>
    /\ map' = <<create_interactive_map(table[1])>>
    /\ pc' = "overlay"
    /\ UNCHANGED <<path, response, requests, table, written, fault, loaded, files, cache, reads>>

\* st.write("Creating interactive map..."); map = create_interactive_map(earthquake_data)
CreateMap ==
    /\ pc = "create"
    /\ out' = Append(out, "Creating interactive map...")
    /\ map' = <<create_interactive_map(table[1])>>
    /\ pc' = "overlay"
    /\ UNCHANGED <<path, response, requests, table, written, fault, loaded, files, cache, reads>>

\* add_satellite_imagery(map, satellite_image_path), up to the return of the
\* loader (or the skip when no path is given)
Overlay ==
    /\ pc = "overlay"
    /\ LET res == add_satellite_imagery_load(path, cache, reads, files)
       IN  /\ loaded' = res.loaded
           /\ cache' = res.cache
           /\ reads' = res.reads
           /\ IF res.raised # "none" THEN Abort(res.raised)
              ELSE IF res.skip THEN pc' = "display" /\ fault' = fault
              ELSE pc' = "bounds" /\ fault' = fault
    /\ UNCHANGED <<path, response, requests, table, map, out, written, files>>

\* add_satellite_imagery, from the second rasterio.open to add_to(map)
OverlayPlace ==
    /\ pc = "bounds"
    /\ LET res == add_satellite_imagery_place(map[1], path, loaded[1].image, files)
       IN  /\ map' = <<res.map>>
           /\ IF res.raised # "none"
                THEN Abort(res.raised)
                ELSE pc' = "display" /\ fault' = fault
    /\ UNCHANGED <<path, response, requests, table, out, written, loaded, files, cache, reads>>

\* st.write("Interactive Map:"); folium_static(map)
Display ==
    /\ pc = "display"
    /\ out' = out \o <<"Interactive Map:", "map">>
    /\ pc' = "save"
    /\ UNCHANGED <<path, response, requests, table, map, written, fault, loaded, files, cache, reads>>

\* map.save("earthquake_map_with_imagery.html"); st.success(...)
Save ==
    /\ pc = "save"
    /\ written' = map
    /\ out' = Append(out, "Map saved as earthquake_map_with_imagery.html")
    /\ pc' = "done"
    /\ UNCHANGED <<path, response, requests, table, map, fault, loaded, files, cache, reads>>

\* the environment replaces, removes or restores a raster file
ChangeFile ==
    /\ \E p \in Paths, v \in 0..MaxVersion :
         /\ v # files[p]
         /\ files' = [files EXCEPT ![p] = v]
    /\ UNCHANGED <<pc, path, response, requests, table, map, out, written, fault, loaded, cache, reads>>

Next ==
    \/ Click
    \/ Fetch
    \/ Normalize
    \/ Preview
    \/ CreateMap
    \/ Overlay
    \/ OverlayPlace
    \/ Display
    \/ Save
    \/ ChangeFile

Spec == Init /\ [][Next]_vars

----------------------------------------------------------------------------
(* Vocabulary of the properties *)

\* the request of this action was answered with a decoded feature collection
HasFeed ==
    /\ Len(response) = 1
    /\ response[1].kind = "http"
    /\ response[1].body.kind = "json"
    /\ "features" \in DOMAIN response[1].body.data

FeedFeatures == response[1].body.data.features

\* every position entry of the feed is a 3-element sequence
GoodFeed == HasFeed /\ \A i \in 1..Len(FeedFeatures) : FeedFeatures[i] \in GoodFeatures

RasterLayers(m) == SelectSeq(m.layers, LAMBDA l : l.kind = "ImageOverlay")

MapShown == \E i \in 1..Len(out) : out[i] = "map"

\* this step is add_satellite_imagery up to the loader's return (or the skip)
LoadStep == pc = "overlay" /\ pc' # "overlay"

\* this step is add_satellite_imagery opening the file for its bounds
PlaceStep == pc = "bounds" /\ pc' # "bounds"

\* main() has gone past create_interactive_map, or was aborted
PastCreate == pc \in {"overlay", "bounds", "display", "save", "done", "failed"}

\* the markers of map m are those of features fs, one per feature, in order
MarkersOf(m, fs) ==
    /\ m.layers[1].kind = "MarkerCluster"
    /\ Len(m.layers[1].markers) = Len(fs)
    /\ \A i \in 1..Len(fs) :
         LET p  == fs[i].geometry.coordinates
             mk == m.layers[1].markers[i]
         IN  /\ mk.location = <<p[2], p[1]>>
             /\ mk.popup = "Magnitude: " \o FormatFloat(fs[i].properties.mag)
                             \o ", Depth: " \o FormatFloat(p[3]) \o " km"

----------------------------------------------------------------------------
(* C1 *)

\* C1 as stated: for a feed of N >= 0 well-formed records, normalize followed
\* by create_interactive_map yields a map with exactly N markers, marker i at
\* (p[1], p[0]) of record i and labelled with record i's magnitude and depth.
C1_AsClaimed ==
    (GoodFeed /\ PastCreate) => (Len(map) = 1 /\ MarkersOf(map[1], FeedFeatures))

\* C1 amended: the same for N >= 1 (with N = 0 the fetched table has no
\* position column and the normalize step raises before any map is made).
C1_MarkersMatchRecords ==
    (GoodFeed /\ Len(FeedFeatures) >= 1 /\ PastCreate)
        => (Len(map) = 1 /\ MarkersOf(map[1], FeedFeatures))

C1_Witness ==
    /\ pc = "done"
    /\ GoodFeed
    /\ Len(FeedFeatures) = 2
    /\ FeedFeatures[1] # FeedFeatures[2]
    /\ Len(map[1].layers[1].markers) = 2

----------------------------------------------------------------------------
(* C2 *)

C2_Step ==
    \A p \in Paths :
        LET loads == LoadStep /\ path = p /\ (cache[p] # 0 \/ files[p] # 0)
        IN  /\ (loads /\ cache[p] = 0)
                => (reads'[p] = reads[p] + 1 /\ cache'[p] # 0
                    /\ Len(loaded') = 1 /\ ~loaded'[1].hit)
            /\ (loads /\ cache[p] # 0)
                => (reads'[p] = reads[p] /\ cache'[p] = cache[p]
                    /\ Len(loaded') = 1 /\ loaded'[1].hit
                    /\ loaded'[1].image = cache[p])
            /\ ~loads => reads'[p] = reads[p]

\* C2: a load of a path that has no stored entry reads the file once, whatever
\* other paths were loaded; a load of a path already loaded returns the stored
\* image and reads nothing; so no path is ever read twice.
C2_Memoized ==
    /\ [][C2_Step]_vars
    /\ [](\A p \in Paths : reads[p] <= 1 /\ (reads[p] = 1 <=> cache[p] # 0))

\* both paths were read once each, and the load of this action was served by
\* the store, from an image that the file on disk no longer holds
C2_Witness ==
    /\ \A p \in Paths : reads[p] = 1
    /\ pc = "display"
    /\ path \in Paths
    /\ Len(loaded) = 1 /\ loaded[1].hit
    /\ files[path] # 0 /\ FileBand1(files[path]) # loaded[1].image
    /\ Len(RasterLayers(map[1])) = 1

----------------------------------------------------------------------------
(* C3 *)

\* C3: after a network failure or a non-2xx response, whatever its body, the
\* action goes no further than the fetch step: no normalization is done, no
\* map is created or displayed, no export is written.
C3_AsClaimed ==
    (Len(response) = 1 /\ ~Is2xx(response[1]))
        => /\ pc \notin {"preview", "create", "overlay", "bounds", "display", "save", "done"}
           /\ map = <<>>
           /\ written = <<>>
           /\ ~MapShown

----------------------------------------------------------------------------
(* C4 *)

\* C4 as stated: nothing is shown before the compose step has finished, and
\* nothing in a run that fails.
C4_AsClaimed ==
    pc \in {"fetch", "normalize", "preview", "create", "overlay", "bounds", "failed"}
        => out = <<>>

EarlyOutput ==
    <<"Fetching earthquake data...", "Earthquake Data Preview:", "dataframe",
      "Creating interactive map...">>

\* C4 amended: the map is shown, and the export written and announced, only
\* after fetch, normalize and compose (markers and overlay) have completed,
\* hence never in a run where a step fails; the status messages and the data
\* preview are shown before compose finishes and stay shown when a step fails.
C4_MapShownAfterCompose ==
    /\ (MapShown \/ written # <<>>)
          => /\ pc \in {"save", "done"}
             /\ fault = "none"
             /\ Len(table) = 1 /\ Len(map) = 1
             /\ Len(map[1].layers[1].markers) = Len(table[1].rows)
             /\ Len(RasterLayers(map[1])) = (IF path = "" THEN 0 ELSE 1)
    /\ pc \in {"fetch", "normalize", "preview", "create", "overlay", "bounds", "failed"}
          => /\ Len(out) >= 1
             /\ out = SubSeq(EarlyOutput, 1, Len(out))
    /\ pc = "fetch" => Len(out) = 1
    /\ pc = "create" => Len(out) = 3
    /\ pc \in {"overlay", "bounds"} => Len(out) = 4

C4_Witness ==
    /\ pc = "failed"
    /\ fault = "RasterioIOError"
    /\ out = EarlyOutput

----------------------------------------------------------------------------
(* C5 *)

\* the overlay step opens the file of the path and finds it missing: the
\* loader, when the store has no entry, or the opening for the bounds
OpensMissingFile ==
    \/ LoadStep /\ path # "" /\ cache[path] = 0 /\ files[path] = 0
    \/ PlaceStep /\ files[path] = 0

C5_Step ==
    OpensMissingFile
        => /\ pc' = "failed"
           /\ fault' = "RasterioIOError"
           /\ map' = map
           /\ Len(map') = 1
           /\ Len(RasterLayers(map'[1])) = 0
           /\ Len(map'[1].layers[1].markers) = Len(table[1].rows)
           /\ written' = <<>>
           /\ ~MapShown'

\* C5: an overlay step that finds the file of its path missing when it opens
\* it fails and aborts the action, memoized path or not: no raster layer, map
\* not shown, export not written, markers already placed.
C5_MissingRasterAborts ==
    /\ [][C5_Step]_vars
    /\ [](fault = "RasterioIOError"
            => /\ pc = "failed"
               /\ Len(RasterLayers(map[1])) = 0
               /\ written = <<>>
               /\ ~MapShown)

\* the failing action got its image from the store, filled by an earlier one
C5_Witness ==
    /\ pc = "failed"
    /\ fault = "RasterioIOError"
    /\ Len(loaded) = 1 /\ loaded[1].hit
    /\ files[path] = 0
    /\ Len(map[1].layers[1].markers) >= 1

----------------------------------------------------------------------------
(* C6 *)

C6_Step ==
    (PlaceStep /\ files[path] # 0)
        => LET b    == FileBounds(files[path])
               old  == map[1].layers
               new  == map'[1].layers
           IN  /\ pc' = "display"
               /\ Len(new) = Len(old) + 1
               /\ SubSeq(new, 1, Len(old)) = old
               /\ old[1].kind = "MarkerCluster"
               /\ new[Len(new)].kind = "ImageOverlay"
               /\ new[Len(new)].image = loaded[1].image
               /\ new[Len(new)].bounds = << <<b.bottom, b.left>>, <<b.top, b.right>> >>
               /\ Len(RasterLayers(map'[1])) = 1

\* C6: an overlay step that finds its raster readable appends exactly one
\* raster layer after the marker cluster, keeps the layers already there, and
\* gives it the bounds [[south, west], [north, east]] that the file declares
\* when the step opens it for them.
C6_OneRasterLayerWithFileBounds ==
    /\ [][C6_Step]_vars
    /\ []((pc \in {"display", "save", "done"} /\ path # "")
            => /\ Len(map[1].layers) = 2
               /\ map[1].layers[1].kind = "MarkerCluster"
               /\ map[1].layers[2].kind = "ImageOverlay")

C6_Witness ==
    /\ pc = "done"
    /\ path # ""
    /\ Len(RasterLayers(map[1])) = 1
    /\ Len(map[1].layers[1].markers) >= 1
    /\ written = map

----------------------------------------------------------------------------
(* C7 *)

C7_Step ==
    (LoadStep /\ path = "")
        => /\ pc' = "display"
           /\ fault' = "none"
           /\ map' = map
           /\ cache' = cache
           /\ reads' = reads
           /\ loaded' = <<>>
           /\ Len(RasterLayers(map'[1])) = 0

\* C7: an overlay step run with no path raises nothing, reads no file, leaves
\* the store and the layers as they were, and the map has no raster layer.
C7_NoPathIsNoOp ==
    /\ [][C7_Step]_vars
    /\ []((pc \in {"display", "save", "done"} /\ path = "")
            => Len(RasterLayers(map[1])) = 0)

C7_Witness ==
    /\ pc = "done"
    /\ path = ""
    /\ \E p \in Paths : cache[p] # 0
    /\ Len(map[1].layers[1].markers) >= 1
    /\ Len(RasterLayers(written[1])) = 0

----------------------------------------------------------------------------
(* C8 *)

\* C8: after a successful response the fetched table has one row per element
\* of the features array, obtained with a single request; an empty array gives
\* an empty table and the fetch step does not fail.
C8_RowPerFeature ==
    (HasFeed /\ Is2xx(response[1]))
        => /\ requests = 1
           /\ Len(table) = 1
           /\ Len(table[1].rows) = Len(FeedFeatures)
           /\ fault \notin {"ConnectionError", "JSONDecodeError"}

C8_Witness ==
    /\ HasFeed /\ Is2xx(response[1])
    /\ Len(FeedFeatures) = 2
    /\ Len(table[1].rows) = 2
    /\ pc = "normalize"

----------------------------------------------------------------------------
(* C9 *)

ZeroEvents == HasFeed /\ Is2xx(response[1]) /\ FeedFeatures = <<>>

\* C9 as stated: with zero events the action runs to completion and never
\* raises.
C9_AsClaimed == ZeroEvents => pc # "failed"

\* C9 amended: with zero events the fetch step returns an empty table without
\* the position column and the normalize step raises KeyError on it; the
\* action aborts after its first status message, with no preview, no map and
\* no export.
C9_ZeroEventsAbort ==
    ZeroEvents
        => /\ pc \in {"normalize", "failed"}
           /\ pc = "failed" => fault = "KeyError"
           /\ Len(table) = 1
           /\ table[1].rows = <<>>
           /\ "geometry.coordinates" \notin table[1].columns
           /\ map = <<>>
           /\ written = <<>>
           /\ out = <<"Fetching earthquake data...">>

C9_Witness == ZeroEvents /\ pc = "failed" /\ fault = "KeyError"

----------------------------------------------------------------------------
(* C10 *)

\* C10: in every raster layer on the map the pixel grid and the bounds come
\* from one and the same version of the file.
C10_AsClaimed ==
    Len(map) = 1 =>
        \A i \in 1..Len(map[1].layers) :
            map[1].layers[i].kind = "ImageOverlay"
                => \E v \in 1..MaxVersion :
                      /\ map[1].layers[i].image = FileBand1(v)
                      /\ map[1].layers[i].bounds = OverlayBounds(FileBounds(v))

====
